---------------------------- MODULE Spec2Model ----------------------------
(***************************************************************************)
(* The four steppers of optimizers.py: GradientAccent,                     *)
(* MetropolisHastingsMCMC, LangevinMCMC and HamiltonyanMCMC.               *)
(*                                                                         *)
(* Numbers.  Positions, gradients, momenta, log-values and lr are exact    *)
(* rationals <<numerator, denominator>> (vectors of dimension 1).  The     *)
(* results of np.exp are "floats" [k, e]: exp(e) for a rational e, or one  *)
(* of the float64 outcomes 0.0 (underflow), inf (overflow) and nan.        *)
(*                                                                         *)
(* Objects.  numpy arrays are objects of a heap; current, new and the      *)
(* caller's variables hold references, so that `self.current = x` (an      *)
(* alias), `x.copy()` (a new object) and `x += y` (in place) differ.       *)
(***************************************************************************)
EXTENDS Integers, Sequences, FiniteSets, TLC

\* ---------------------------------------------------------------- bounds
MaxSteps == 3      \* update() is not entered once number_of_steps reaches it
MaxL == 2          \* the integration lengths L tried are 1..MaxL

\* float64: np.exp(d) is 0.0 for d <= -746 and inf for d >= 710
ExpUnderflow == 746
ExpOverflow == 710

\* ------------------------------------------------------------- rationals
Abs(n) == IF n < 0 THEN -n ELSE n

Sign(n) == IF n < 0 THEN -1 ELSE IF n = 0 THEN 0 ELSE 1

RECURSIVE GCD(_, _)
GCD(a, b) == IF b = 0 THEN a ELSE GCD(b, a % b)

LCM(a, b) == (a \div GCD(a, b)) * b

Rat(n, d) ==
    LET s == IF d < 0 THEN -1 ELSE 1
        g == GCD(Abs(n), Abs(d))
    IN  <<(s * n) \div g, (s * d) \div g>>

RInt(n) == <<n, 1>>

RNeg(a) == <<-a[1], a[2]>>

RAdd(a, b) ==
    LET l == LCM(a[2], b[2])
    IN  Rat(a[1] * (l \div a[2]) + b[1] * (l \div b[2]), l)

RSub(a, b) == RAdd(a, RNeg(b))

RMul(a, b) == Rat(a[1] * b[1], a[2] * b[2])

RDiv(a, b) == Rat(a[1] * b[2], a[2] * b[1])

RLt(a, b) ==
    LET l == LCM(a[2], b[2])
    IN  a[1] * (l \div a[2]) < b[1] * (l \div b[2])

RLe(a, b) == ~RLt(b, a)

RAbs(a) == <<Abs(a[1]), a[2]>>

RSign(a) == Sign(a[1])

\* --------------------------------------------------------------- floats
Zero == [k |-> "zero", e |-> RInt(0)]
One == [k |-> "exp", e |-> RInt(0)]
Inf == [k |-> "inf", e |-> RInt(0)]
NaN == [k |-> "nan", e |-> RInt(0)]

\* np.exp(d) in float64
ExpF(d) ==
    IF RLe(d, RInt(-ExpUnderflow)) THEN Zero
    ELSE IF RLe(RInt(ExpOverflow), d) THEN Inf
    ELSE [k |-> "exp", e |-> d]

\* a * b of two non-negative floats
FMul(a, b) ==
    IF a.k = "nan" \/ b.k = "nan" THEN NaN
    ELSE IF (a.k = "zero" /\ b.k = "inf") \/ (a.k = "inf" /\ b.k = "zero") THEN NaN
    ELSE IF a.k = "zero" \/ b.k = "zero" THEN Zero
    ELSE IF a.k = "inf" \/ b.k = "inf" THEN Inf
    ELSE ExpF(RAdd(a.e, b.e))

\* a < b; every comparison with nan is False
FLt(a, b) ==
    IF a.k = "nan" \/ b.k = "nan" THEN FALSE
    ELSE IF a.k = "zero" THEN b.k # "zero"
    ELSE IF a.k = "inf" THEN FALSE
    ELSE IF b.k = "zero" THEN FALSE
    ELSE IF b.k = "inf" THEN TRUE
    ELSE RLt(a.e, b.e)

\* a > b
FGt(a, b) == FLt(b, a)

Min1Uncapped(x) == x

\* Python's min(1, x): x when x < 1, else 1 (so min(1, nan) is 1)
Min1(x) == IF FLt(x, One) THEN x ELSE One

\* np.random.uniform(0, 1) draws from [0, 1): 0.0 and values exp(t), t < 0
Thresholds == {Zero, ExpF(RInt(-36)), ExpF(RInt(-1))}

\* ----------------------------------------------------------------- state
VARIABLES
    kind,             \* the class of the stepper
    slope,            \* the oracle: log-value -slope*|x|, mode at 0
    lr, lr_decay, L, number_of_steps,
    heap,             \* array objects: reference -> value
    current,          \* self.current (a reference)
    current_value,    \* self.current_value: <<log-value, gradient>>
    pc,               \* "idle", or the position inside update()
    accepted, old_lr, \* locals of update()
    new, new_value, alpha, th,
    trans,            \* what the last transition() did
    attempts,         \* attempts finished in the running update() call
    oracle_calls,     \* oracle evaluations of the last handler call
    result,           \* outcome of the last handler call
    entry,            \* lr, number_of_steps, current at the entry of update()
    callerInit, callerInitVal,   \* the array the caller passed to initialize()
    callerRead, callerReadVal    \* the caller's `next = mcmc.current`

vars == <<kind, slope, lr, lr_decay, L, number_of_steps, heap, current,
          current_value, pc, accepted, old_lr, new, new_value, alpha, th,
          trans, attempts, oracle_calls, result, entry,
          callerInit, callerInitVal, callerRead, callerReadVal>>

Kinds == {"GradientAccent", "MetropolisHastingsMCMC", "LangevinMCMC", "HamiltonyanMCMC"}

MCMCKinds == Kinds \ {"GradientAccent"}

Slopes == {1, 400}

Lrs == {Rat(1, 2)}

LrDecays == {RInt(1), Rat(1, 2)}

Refs == 0 .. 3

NoRef == -1

Free == <<>>

None == <<>>

\* ---------------------------------------------------------------- oracle
\* the oracle is defined on |x| <= 2 and raises elsewhere
InDomain(x) == RLe(RAbs(x), RInt(2))

\* The oracle is the caller's: here the log-density -slope*|x| with its
\* gradient -slope*sign(x), 0 at the mode.  oracle(x) = (log-value, gradient).
oracle(x) == <<RMul(RInt(-slope), RAbs(x)), RInt(-slope * RSign(x))>>

Points == {RInt(n) : n \in -2 .. 2}

Candidates == {RInt(n) : n \in -3 .. 3}

Momenta == {RInt(-1), RInt(0), RInt(1)}

\* ------------------------------------------------------------------ heap
\* the smallest reference no live variable holds
FreshRef(live) ==
    CHOOSE r \in Refs : r \notin live /\ \A s \in Refs : s \notin live => r <= s

\* objects no variable refers to are collected
GC(h, live) == [r \in Refs |-> IF r \in live THEN h[r] ELSE Free]

TransNone ==
    [lr |-> RInt(0), p0 |-> RInt(0), pT |-> RInt(0), qs |-> <<>>, ps |-> <<>>,
     nMom |-> 0, nOracle |-> 0]

EntryNone == [lr |-> RInt(0), steps |-> 0, cur |-> NoRef, val |-> Free, cv |-> None]

Outcome(k, v) == [k |-> k, v |-> v]

\* After __init__: GradientAccent has no lr_decay (kept at 1) and only
\* HamiltonyanMCMC has L (0 elsewhere); current and current_value are not set.
Init ==
    /\ kind \in Kinds
    /\ slope \in Slopes
    /\ lr \in Lrs
    /\ lr_decay \in (IF kind = "GradientAccent" THEN {RInt(1)} ELSE LrDecays)
    /\ L \in (IF kind = "HamiltonyanMCMC" THEN 1 .. MaxL ELSE {0})
    /\ number_of_steps = 0
    /\ heap = [r \in Refs |-> Free]
    /\ current = NoRef
    /\ current_value = None
    /\ pc = "idle"
    /\ accepted = FALSE
    /\ old_lr = RInt(0)
    /\ new = NoRef
    /\ new_value = None
    /\ alpha = Zero
    /\ th = Zero
    /\ trans = TransNone
    /\ attempts = 0
    /\ oracle_calls = 0
    /\ result = Outcome("constructed", RInt(0))
    /\ entry = EntryNone
    /\ callerInit = NoRef
    /\ callerInitVal = Free
    /\ callerRead = NoRef
    /\ callerReadVal = Free

\* ------------------------------------------------------------ initialize
\* The caller builds an array holding x and passes it, once, before the first
\* update(): self.current is that very object.  The MCMC classes also evaluate
\* the oracle at it.
initialize(x) ==
    /\ pc = "idle"
    /\ result.k = "constructed"
    /\ LET r == FreshRef({callerRead})
       IN  /\ heap' = GC([heap EXCEPT ![r] = x], {r, callerRead})
           /\ current' = r
           /\ callerInit' = r
    /\ callerInitVal' = x
    /\ current_value' = IF kind = "GradientAccent" THEN current_value ELSE oracle(x)
    /\ oracle_calls' = IF kind = "GradientAccent" THEN 0 ELSE 1
    /\ result' = Outcome("initialized", RInt(0))
    /\ UNCHANGED <<kind, slope, lr, lr_decay, L, number_of_steps, pc, accepted,
                   old_lr, new, new_value, alpha, th, trans, attempts, entry,
                   callerRead, callerReadVal>>

Initialize == \E x \in Points : initialize(x)

\* the caller's `next = mcmc.current` after an update() that returned
ReadCurrent ==
    /\ pc = "idle"
    /\ result.k = "returned"
    /\ callerRead' = current
    /\ callerReadVal' = heap[current]
    /\ heap' = GC(heap, {current, callerInit})
    /\ UNCHANGED <<kind, slope, lr, lr_decay, L, number_of_steps, current,
                   current_value, pc, accepted, old_lr, new, new_value, alpha, th,
                   trans, attempts, oracle_calls, result, entry, callerInit,
                   callerInitVal>>

\* -------------------------------------------------------- GradientAccent
GAStepNoLr(x, grad) == RAdd(x, grad)

\* current + lr * grad
GAStep(x, grad) == RAdd(x, RMul(lr, grad))

\* value, grad = oracle(current); current += lr * grad (in place);
\* number_of_steps += 1; return value
GAUpdate ==
    /\ kind = "GradientAccent"
    /\ pc = "idle"
    /\ current # NoRef
    /\ number_of_steps < MaxSteps
    /\ oracle_calls' = 1
    /\ entry' = [lr |-> lr, steps |-> number_of_steps, cur |-> current,
                 val |-> heap[current], cv |-> current_value]
    /\ IF InDomain(heap[current])
       THEN LET value == oracle(heap[current])[1]
                grad == oracle(heap[current])[2]
            IN  /\ heap' = [heap EXCEPT ![current] = GAStep(heap[current], grad)]
                /\ number_of_steps' = number_of_steps + 1
                /\ result' = Outcome("returned", value)
       ELSE /\ result' = Outcome("raised", RInt(0))
            /\ UNCHANGED <<heap, number_of_steps>>
    /\ UNCHANGED <<kind, slope, lr, lr_decay, L, current, current_value, pc,
                   accepted, old_lr, new, new_value, alpha, th, trans, attempts,
                   callerInit, callerInitVal, callerRead, callerReadVal>>

\* ------------------------------------------------- compute_alpha (MH)
\* min(1, exp(new_value[0] - current_value[0]))
compute_alpha(new_v, cur_v) == Min1(ExpF(RSub(new_v[1], cur_v[1])))

\* ------------------------------------------------------------- Langevin
\* val = a - b - lr * b_value[1]; -sum(val ** 2) / (4 * lr)
proposal_a_given_b(a, b, a_value, b_value, eps) ==
    LET val == RSub(RSub(a, b), RMul(eps, b_value[2]))
    IN  RDiv(RNeg(RMul(val, val)), RMul(RInt(4), eps))

\* min(1, symmetric_part * assymetric_part), each part one np.exp
langevin_alpha(c, new_v, cur, cur_v, eps) ==
    LET symmetric_part == ExpF(RSub(new_v[1], cur_v[1]))
        assymetric_part ==
            ExpF(RSub(proposal_a_given_b(cur, c, cur_v, new_v, eps),
                      proposal_a_given_b(c, cur, new_v, cur_v, eps)))
    IN  Min1(FMul(symmetric_part, assymetric_part))

\* ---------------------------------------------------------- Hamiltonyan
LastIterationOffByOne(i, len) == i = len

\* `if i != self.L - 1` guards the momentum update
LastIteration(i, len) == i = len - 1

\* one pass of the body of `for i in range(self.L)`
LeapfrogIter(s, i, eps, len) ==
    LET q1 == RAdd(s.q, RMul(eps, s.p))
        s1 == [s EXCEPT !.q = q1, !.qs = Append(@, q1), !.ps = Append(@, s.p)]
    IN  IF LastIteration(i, len) THEN s1
        ELSE IF ~InDomain(q1)
             THEN [s1 EXCEPT !.nOracle = @ + 1, !.raised = TRUE]
             ELSE [s1 EXCEPT !.p = RAdd(s.p, RMul(eps, oracle(q1)[2])),
                             !.nMom = @ + 1, !.nOracle = @ + 1]

RECURSIVE LeapfrogLoop(_, _, _, _)
LeapfrogLoop(s, i, eps, len) ==
    IF i >= len \/ s.raised THEN s
    ELSE LeapfrogLoop(LeapfrogIter(s, i, eps, len), i + 1, eps, len)

\* HamiltonyanMCMC.transition() from position q0 with momentum draw p0:
\* the candidate q, its oracle result, alpha, and what was done on the way
hmc_transition(q0, cur_v, p0, eps, len) ==
    LET pHalf == RAdd(p0, RDiv(RMul(eps, cur_v[2]), RInt(2)))
        s == LeapfrogLoop([q |-> q0, p |-> pHalf, qs |-> <<>>, ps |-> <<>>,
                           nMom |-> 0, nOracle |-> 0, raised |-> FALSE],
                          0, eps, len)
        fail(n) == [raised |-> TRUE, q |-> s.q, new_value |-> None, alpha |-> Zero,
                    qs |-> s.qs, ps |-> s.ps, pT |-> s.p, nMom |-> s.nMom,
                    nOracle |-> n]
    IN  IF s.raised THEN fail(s.nOracle)
        ELSE IF ~InDomain(s.q) THEN fail(s.nOracle + 1)
        ELSE LET nv == oracle(s.q)
                 pT == RAdd(s.p, RDiv(RMul(eps, nv[2]), RInt(2)))
                 proposed_u == RNeg(nv[1])
                 current_u == RNeg(cur_v[1])
                 current_k == RDiv(RMul(p0, p0), RInt(2))
                 proposed_k == RDiv(RMul(pT, pT), RInt(2))
             IN  [raised |-> FALSE, q |-> s.q, new_value |-> nv,
                  alpha |-> ExpF(RSub(RAdd(RSub(current_u, proposed_u), current_k),
                                      proposed_k)),
                  qs |-> s.qs, ps |-> s.ps, pT |-> pT, nMom |-> s.nMom,
                  nOracle |-> s.nOracle + 1]

\* ------------------------------------------------------- update(), MCMC
\* accepted = False; old_lr = self.lr
UpdateEnter ==
    /\ kind \in MCMCKinds
    /\ pc = "idle"
    /\ current # NoRef
    /\ number_of_steps < MaxSteps
    /\ accepted' = FALSE
    /\ old_lr' = lr
    /\ pc' = "loop"
    /\ attempts' = 0
    /\ oracle_calls' = 0
    /\ result' = Outcome("running", RInt(0))
    /\ entry' = [lr |-> lr, steps |-> number_of_steps, cur |-> current,
                 val |-> heap[current], cv |-> current_value]
    /\ UNCHANGED <<kind, slope, lr, lr_decay, L, number_of_steps, heap, current,
                   current_value, new, new_value, alpha, th, trans,
                   callerInit, callerInitVal, callerRead, callerReadVal>>

Live == {current, callerInit, callerRead}

\* the oracle raised inside update(): the exception leaves the call, nothing
\* after the raising line runs
Raise(n) ==
    /\ pc' = "idle"
    /\ result' = Outcome("raised", RInt(0))
    /\ oracle_calls' = oracle_calls + n
    /\ new' = NoRef
    /\ new_value' = None
    /\ alpha' = Zero
    /\ th' = Zero
    /\ trans' = TransNone
    /\ heap' = GC(heap, Live)
    /\ UNCHANGED <<kind, slope, lr, lr_decay, L, number_of_steps, current,
                   current_value, accepted, old_lr, attempts, entry,
                   callerInit, callerInitVal, callerRead, callerReadVal>>

\* new, new_value, alpha are bound; the draw of th and the test follow
Proposed(c, nv, a, t, n) ==
    /\ pc' = "decide"
    /\ new' = FreshRef(Live)
    /\ heap' = [GC(heap, Live) EXCEPT ![FreshRef(Live)] = c]
    /\ new_value' = nv
    /\ alpha' = a
    /\ trans' = t
    /\ oracle_calls' = oracle_calls + n
    /\ UNCHANGED <<kind, slope, lr, lr_decay, L, number_of_steps, current,
                   current_value, accepted, old_lr, th, attempts, result, entry,
                   callerInit, callerInitVal, callerRead, callerReadVal>>

InLoop == pc = "loop" /\ ~accepted /\ number_of_steps < MaxSteps

\* new = self.transition(): a draw of multivariate_normal(current, lr);
\* new_value = self.oracle(new); alpha = self.compute_alpha(new, new_value)
TransitionMH ==
    /\ kind = "MetropolisHastingsMCMC"
    /\ InLoop
    /\ \E c \in Candidates :
          IF InDomain(c)
          THEN Proposed(c, oracle(c), compute_alpha(oracle(c), current_value),
                        [TransNone EXCEPT !.lr = lr], 1)
          ELSE Raise(1)

\* new = current + lr * gradient + sqrt(2 * lr) * noise: the noise is any
\* real, so new is any point; then the oracle and compute_alpha as above
TransitionLangevin ==
    /\ kind = "LangevinMCMC"
    /\ InLoop
    /\ \E c \in Candidates :
          IF InDomain(c)
          THEN Proposed(c, oracle(c),
                        langevin_alpha(c, oracle(c), heap[current], current_value, lr),
                        [TransNone EXCEPT !.lr = lr], 1)
          ELSE Raise(1)

\* new, new_value, alpha = self.transition()
TransitionHMC ==
    /\ kind = "HamiltonyanMCMC"
    /\ InLoop
    /\ \E p0 \in Momenta :
          LET t == hmc_transition(heap[current], current_value, p0, lr, L)
          IN  IF t.raised THEN Raise(t.nOracle)
              ELSE Proposed(t.q, t.new_value, t.alpha,
                            [lr |-> lr, p0 |-> p0, pT |-> t.pT, qs |-> t.qs,
                             ps |-> t.ps, nMom |-> t.nMom, nOracle |-> t.nOracle],
                            t.nOracle)

DecayedLrForgotten == lr

\* self.lr *= self.lr_decay
DecayedLr == RMul(lr, lr_decay)

AcceptOnEqual(a, t) == ~FLt(a, t)

\* if alpha > th
Accept(a, t) == FGt(a, t)

StepsOnlyWhenAccepted(acc) == IF acc THEN number_of_steps + 1 ELSE number_of_steps

\* self.number_of_steps += 1, on every attempt
StepsAfterAttempt(acc) == number_of_steps + 1

CommittedValueStale == current_value

\* self.current_value = new_value
CommittedValue == new_value

\* th = uniform(0, 1); lr *= lr_decay; if alpha > th: commit; count the attempt
Decide ==
    /\ pc = "decide"
    /\ \E t \in Thresholds :
          /\ th' = t
          /\ lr' = DecayedLr
          /\ IF Accept(alpha, t)
             THEN /\ accepted' = TRUE
                  /\ current' = new
                  /\ current_value' = CommittedValue
                  /\ heap' = GC(heap, {new, callerInit, callerRead})
             ELSE UNCHANGED <<accepted, current, current_value, heap>>
          /\ number_of_steps' = StepsAfterAttempt(Accept(alpha, t))
    /\ attempts' = attempts + 1
    /\ pc' = "loop"
    /\ UNCHANGED <<kind, slope, lr_decay, L, old_lr, new, new_value, alpha, trans,
                   oracle_calls, result, entry,
                   callerInit, callerInitVal, callerRead, callerReadVal>>

RestoredLrForgotten == lr

\* self.lr = old_lr
RestoredLr == old_lr

\* the loop ends; lr is restored; return self.current_value[0]
Return ==
    /\ pc = "loop"
    /\ accepted
    /\ lr' = RestoredLr
    /\ result' = Outcome("returned", current_value[1])
    /\ pc' = "idle"
    /\ new' = NoRef
    /\ new_value' = None
    /\ alpha' = Zero
    /\ th' = Zero
    /\ trans' = TransNone
    /\ heap' = GC(heap, Live)
    /\ UNCHANGED <<kind, slope, lr_decay, L, number_of_steps, current,
                   current_value, accepted, old_lr, attempts, oracle_calls, entry,
                   callerInit, callerInitVal, callerRead, callerReadVal>>

Next ==
    \/ Initialize
    \/ ReadCurrent
    \/ GAUpdate
    \/ UpdateEnter
    \/ TransitionMH
    \/ TransitionLangevin
    \/ TransitionHMC
    \/ Decide
    \/ Return

Spec == Init /\ [][Next]_vars

\* ---------------------------------------------------------------- steps
RECURSIVE RPow(_, _)
RPow(a, n) == IF n = 0 THEN RInt(1) ELSE RMul(a, RPow(a, n - 1))

\* lr0 * lr_decay^k for the k attempts finished in the running call
ExpectedLr == RMul(entry.lr, RPow(lr_decay, attempts))

TransitionStep == pc = "loop" /\ pc' = "decide"
DecideStep == pc = "decide" /\ pc' = "loop"
ReturnStep == pc = "loop" /\ pc' = "idle" /\ result'.k = "returned"
Returned == pc = "idle" /\ result.k = "returned"
IsMCMC == kind \in MCMCKinds

\* C1: in the three MCMC classes, whenever update() has returned, lr equals
\* the value it had when that call was entered, whatever lr_decay is and
\* however many attempts the call made.
C1_LrRestoredOnReturn == (IsMCMC /\ Returned) => lr = entry.lr

C1_Witness ==
    /\ IsMCMC /\ Returned
    /\ attempts >= 2 /\ lr_decay # RInt(1)
    /\ lr = entry.lr

\* C2: number_of_steps starts at 0 and never decreases; a GradientAccent
\* update() that returns adds exactly 1, every attempt of an MCMC update()
\* adds exactly 1, and an MCMC update() that returns has added the number of
\* its attempts, which is at least 1; nothing else changes the counter.
C2_StepCount ==
    /\ number_of_steps = 0
    /\ []((kind = "GradientAccent" /\ Returned) => number_of_steps = entry.steps + 1)
    /\ [][/\ number_of_steps' >= number_of_steps
          /\ kind = "GradientAccent" =>
               /\ number_of_steps' <= number_of_steps + 1
               /\ result'.k # "returned" => number_of_steps' = number_of_steps
          /\ DecideStep => number_of_steps' = number_of_steps + 1
          /\ (IsMCMC /\ ~DecideStep) => number_of_steps' = number_of_steps
          /\ ReturnStep => /\ attempts >= 1
                           /\ number_of_steps' = entry.steps + attempts]_vars

C2_Witness ==
    /\ IsMCMC /\ Returned
    /\ entry.steps >= 1
    /\ attempts >= 2
    /\ number_of_steps = entry.steps + attempts

\* C3: inside an MCMC update() the pair (current, current_value) is the pair
\* of the call's entry until the accepted attempt, which sets it to the
\* candidate and the oracle's result at the candidate; a transition and a
\* rejected attempt leave it alone; the call returns the log-value of the
\* committed pair.  After initialize and after every returned update(),
\* current_value is the oracle's result at current.
Pair == <<current, heap[current], current_value>>

C3_CommitOnce ==
    /\ []((IsMCMC /\ pc = "idle" /\ result.k \in {"initialized", "returned"})
             => current_value = oracle(heap[current]))
    /\ [][/\ TransitionStep => Pair' = Pair
          /\ DecideStep =>
               /\ Pair = <<entry.cur, entry.val, entry.cv>>
               /\ IF FGt(alpha, th')
                  THEN /\ current' = new
                       /\ heap'[current'] = heap[new]
                       /\ current_value' = new_value
                       /\ new_value = oracle(heap[new])
                  ELSE Pair' = Pair
          /\ ReturnStep => /\ Pair' = Pair
                           /\ Pair = <<new, heap[new], new_value>>
                           /\ result'.v = current_value[1]]_vars

C3_Witness ==
    /\ IsMCMC /\ Returned
    /\ attempts >= 2
    /\ heap[current] # entry.val
    /\ result.v = oracle(heap[current])[1]

\* C4: an attempt is accepted exactly when its alpha is strictly greater than
\* the drawn th; attempts are made only while none was accepted, so the loop
\* ends on the first accepted attempt, and update() returns only after an
\* accepted attempt: while every attempt is rejected it does not return.
C4_LoopEndsOnFirstAccept ==
    [][/\ DecideStep => (~accepted /\ (accepted' <=> FGt(alpha, th')))
       /\ TransitionStep => ~accepted
       /\ ReturnStep => (accepted /\ FGt(alpha, th))
       /\ (pc = "loop" /\ ~accepted /\ pc' # "loop")
            => (TransitionStep \/ result'.k = "raised")]_vars

C4_Witness ==
    /\ pc = "loop" /\ ~accepted
    /\ attempts >= 2
    /\ alpha.k = "exp" /\ alpha = th

\* C5: in an MCMC update() lr is multiplied by lr_decay once per attempt,
\* after the candidate is proposed and scored: the (k+1)-th attempt proposes
\* and computes alpha with lr0 * lr_decay^k, lr0 the stepsize at call entry,
\* and lr still has that value when alpha is known; the first attempt uses
\* lr0.
C5_DecayPerAttempt ==
    (IsMCMC /\ pc \in {"loop", "decide"}) =>
        /\ lr = ExpectedLr
        /\ pc = "decide" =>
             /\ trans.lr = ExpectedLr
             /\ attempts = 0 => trans.lr = entry.lr
             /\ kind = "LangevinMCMC" =>
                  alpha = langevin_alpha(heap[new], new_value, heap[current],
                                         current_value, ExpectedLr)
             /\ kind = "HamiltonyanMCMC" =>
                  LET t == hmc_transition(heap[current], current_value, trans.p0,
                                          ExpectedLr, L)
                  IN  heap[new] = t.q /\ alpha = t.alpha

C5_Witness ==
    /\ kind = "HamiltonyanMCMC" /\ pc = "decide"
    /\ attempts >= 2 /\ lr_decay # RInt(1)
    /\ trans.lr = RMul(entry.lr, RMul(lr_decay, lr_decay))
    /\ heap[new] # heap[current]

\* C6: a HamiltonyanMCMC.transition() that returns has made exactly L position
\* updates q += lr*p, L-1 full momentum updates (after every position update
\* but the last), a half momentum update with the current gradient before the
\* first position update and one with the gradient at the final q; it has
\* evaluated the oracle L times and has left current and current_value alone.
C6_Leapfrog ==
    (kind = "HamiltonyanMCMC" /\ pc = "decide") =>
        LET eps == trans.lr
            half(g) == RDiv(RMul(eps, g), RInt(2))
            before(i) == IF i = 1 THEN heap[current] ELSE trans.qs[i - 1]
        IN  /\ L >= 1
            /\ Len(trans.qs) = L /\ Len(trans.ps) = L
            /\ trans.nMom = L - 1
            /\ trans.nOracle = L
            /\ trans.ps[1] = RAdd(trans.p0, half(current_value[2]))
            /\ \A i \in 1 .. L : trans.qs[i] = RAdd(before(i), RMul(eps, trans.ps[i]))
            /\ \A i \in 1 .. L - 1 :
                 trans.ps[i + 1] = RAdd(trans.ps[i], RMul(eps, oracle(trans.qs[i])[2]))
            /\ trans.pT = RAdd(trans.ps[L], half(oracle(trans.qs[L])[2]))
            /\ heap[new] = trans.qs[L]
            /\ new_value = oracle(trans.qs[L])
            /\ Pair = <<entry.cur, entry.val, entry.cv>>

C6_Witness ==
    /\ kind = "HamiltonyanMCMC" /\ pc = "decide"
    /\ L >= 2 /\ trans.nMom = L - 1 /\ trans.nOracle = L
    /\ trans.ps[L] # trans.ps[1]
    /\ heap[new] # heap[current]

\* candidate log-value minus current log-value, when alpha is known
LogGain == RSub(new_value[1], current_value[1])

Scored == kind \in {"MetropolisHastingsMCMC", "LangevinMCMC"} /\ pc = "decide"

\* C7 as stated: for finite log-values the alpha of MetropolisHastingsMCMC
\* and LangevinMCMC lies in (0, 1]; for MetropolisHastingsMCMC it is 1 exactly
\* when the candidate's log-value is at least the current one, and an attempt
\* with alpha = 1 is accepted whatever th is drawn.
C7_AlphaInOpenUnitInterval ==
    /\ Scored =>
         /\ alpha.k = "exp"
         /\ FLt(Zero, alpha)
         /\ ~FLt(One, alpha)
         /\ kind = "MetropolisHastingsMCMC" =>
              (alpha = One <=> RLe(RInt(0), LogGain))
    /\ (kind = "MetropolisHastingsMCMC" /\ pc = "loop" /\ attempts >= 1
          /\ alpha = One) => accepted

\* C7 amended: alpha is a float of [0, 1], never nan, inf or above 1; for
\* MetropolisHastingsMCMC it is 0.0 only where exp underflows (a candidate
\* more than 745 below the current log-value), it is 1 whenever the
\* candidate's log-value is at least the current one, and an attempt with
\* alpha = 1 is accepted whatever th is drawn.
C7_AlphaInClosedUnitInterval ==
    /\ Scored =>
         /\ alpha.k \in {"zero", "exp"}
         /\ ~FLt(One, alpha)
         /\ kind = "MetropolisHastingsMCMC" =>
              /\ RLe(RInt(0), LogGain) => alpha = One
              /\ RLt(RInt(1 - ExpUnderflow), LogGain) => FLt(Zero, alpha)
    /\ (kind \in {"MetropolisHastingsMCMC", "LangevinMCMC"} /\ pc = "loop"
          /\ attempts >= 1 /\ alpha = One) => accepted

C7_Witness ==
    /\ kind = "MetropolisHastingsMCMC" /\ pc = "decide"
    /\ alpha = Zero
    /\ RLt(LogGain, RInt(0))

\* C8: a GradientAccent.update() that returned evaluated the oracle once, at
\* the point held at entry, left current at that point plus lr times the
\* gradient there, and returned the log-value of the point held at entry;
\* with a zero gradient current is unchanged.  initialize() evaluates nothing.
C8_GradientStep ==
    kind = "GradientAccent" =>
        /\ result.k = "initialized" => (oracle_calls = 0 /\ current_value = None)
        /\ Returned =>
             /\ oracle_calls = 1
             /\ current = entry.cur
             /\ heap[current] = RAdd(entry.val, RMul(lr, oracle(entry.val)[2]))
             /\ result.v = oracle(entry.val)[1]
             /\ oracle(entry.val)[2] = RInt(0) => heap[current] = entry.val

C8_Witness ==
    /\ kind = "GradientAccent" /\ Returned
    /\ number_of_steps >= 2
    /\ heap[current] # entry.val
    /\ result.v # oracle(heap[current])[1]

\* C9 as stated: in all four classes the array the caller passed to
\* initialize() still holds the value it had then, and an array the caller
\* read from current after an update() still holds the value it had when read.
C9_CallerArraysUntouched ==
    /\ callerInit # NoRef => heap[callerInit] = callerInitVal
    /\ callerRead # NoRef => heap[callerRead] = callerReadVal

\* C10 as stated: when the oracle raises inside an MCMC update(), lr is back
\* at its value of the call's entry, and current and current_value are those
\* of the last commit.
C10_LrRestoredOnFailure ==
    (IsMCMC /\ pc = "idle" /\ result.k = "raised") =>
        /\ lr = entry.lr
        /\ Pair = <<entry.cur, entry.val, entry.cv>>

=============================================================================
